---------------------------- MODULE Spec2Model ----------------------------
(***************************************************************************)
(* Model of deploy/parity-test.py: the deployment-parity validator.        *)
(*                                                                         *)
(* main() runs eight validation steps in order and stops at the first one  *)
(* that returns False.  Every step blocks in run_command (subprocess.run,  *)
(* no timeout) or in requests.get (timeout=30); the model has one action   *)
(* per blocking call: the call returns with an outcome chosen by the       *)
(* environment and the code runs on to its next blocking call.  A call     *)
(* that never returns is a behaviour in which that action is never taken.  *)
(*                                                                         *)
(* In wait_for_pods_ready the loop over the listed pods is taken one pod   *)
(* at a time, and its while test and its sleep are actions of their own.  *)
(*                                                                         *)
(* Step indices are 1-based here (Python's steps[0] is step 1).            *)
(* Time is in seconds; `elapsed` is time.time() - start_time of            *)
(* wait_for_pods_ready.                                                    *)
(***************************************************************************)
EXTENDS Integers, Sequences, FiniteSets

VARIABLES
    pc,          \* where the program is blocked: the call in flight, or "start"/"exit"
    step,        \* main: position of the for loop over steps (0 before the loop)
    all_passed,  \* main: all_passed
    exit_code,   \* <<>> while running, <<c>> once main has returned c
    report,      \* the PASSED/FAILED lines main has printed, in order
    invoked,     \* the steps whose step_func() main has called, in order
    i,           \* index of the for loop inside the current step function
    rc,          \* return_code of the last run_command that returned
    timeout,     \* wait_for_pods_ready: its timeout parameter
    elapsed,     \* wait_for_pods_ready: time.time() - start_time
    poll,        \* wait_for_pods_ready: what the last pod listing was
    n_pods,      \* wait_for_pods_ready: len(pods) of the last listing
    j,           \* wait_for_pods_ready: pods of the listing examined so far
    pod,         \* wait_for_pods_ready: the pod examined last (NoPod: none)
    all_ready,   \* wait_for_pods_ready: all_ready
    broke,       \* wait_for_pods_ready: the pod loop was left by `break`
    unready,     \* pods of the last listing examined and found not ready (observer)
    parse_errors,\* wait_for_pods_ready: a JSONDecodeError was caught in this call
    wait_result, \* why wait_for_pods_ready returned ("none": it has not)
    probes,      \* listing commands this call has issued (counted up to MaxCounted)
    sleeps,      \* sleeps this call has completed (counted up to MaxCounted)
    fixed_ready, \* every listing obtained so far was a non-empty, all-ready one (observer)
    cmds,        \* the external calls issued so far, each <<call, loop index>>
    repeated,    \* those of them issued more than once
    returned,    \* the calls that have returned, each with its return code
    components,  \* validate_dapr_components: <<names listed>> once the listing succeeded
    missing,     \* validate_dapr_components: the names printed as "not found"
    replicas,    \* validate_services_scaled: stdout of the replica queries that succeeded
    calls,       \* calls of wait_for_pods_ready made so far
    first,       \* <<result, probes, sleeps>> of the first call once a second is made
    cancelled    \* an external cancellation has been requested

mainVars == <<step, all_passed, exit_code, report, invoked>>
waitVars == <<timeout, elapsed, poll, n_pods, j, pod, all_ready, broke,
              unready, parse_errors, wait_result, probes, sleeps, fixed_ready>>
stepObs  == <<components, missing, replicas>>
callVars == <<first, cancelled>>
vars == <<pc, i, rc, mainVars, waitVars, cmds, repeated, returned, stepObs, calls,
         callVars>>

---------------------------------------------------------------------------
(* Program constants *)

DefaultTimeout == 300
SleepInterval  == 10
HealthOk       == 200
ExpectedReplicas == 1

Steps ==
    << "Check Minikube Status", "Check kubectl Connection", "Deploy Application",
       "Wait for Pods Ready", "Validate Dapr Components", "Validate Dapr Placement",
       "Validate Service Scaling", "Test Basic Functionality" >>

NumSteps == Len(Steps)

Manifests ==
    << "task-service-k8s.yaml", "reminder-service-k8s.yaml",
       "recurring-task-engine-k8s.yaml", "notification-service-k8s.yaml",
       "audit-service-k8s.yaml", "dapr-components.yaml" >>

ScaledServices ==
    << "task-service", "reminder-service", "recurring-task-engine",
       "notification-service", "audit-service" >>

\* task-service first (lines 112-130), then the list of line 133
HealthServices ==
    << "task-service", "reminder-service", "notification-service",
       "audit-service", "recurring-task-engine" >>

RequiredComponents == {"pubsub", "statestore", "secretstore"}

---------------------------------------------------------------------------
(* Bounds and input sets *)

MaxPods       == 2    \* pods in one listing
MaxContainers == 2    \* containerStatuses of one pod
MaxOverrun    == 20   \* a listing command is followed for this long past the deadline
MaxReplicas   == 2    \* replica counts a deployment reports
MaxCounted    == 2    \* probes and sleeps of a call are counted up to this
MaxCalls      == 2    \* calls of wait_for_pods_ready a harness makes in succession
ShortTimeout  == 25   \* a timeout argument other than the default

\* run_command: 0, an application's non-zero exit, and the -1 of the except branch
ReturnCodes == {0, 1, -1}

\* the timeout parameter: main passes the default; the short one is not a
\* multiple of the sleep
Timeouts == {ShortTimeout, DefaultTimeout}

\* granularity at which the duration of a listing command is observed
TickStep == SleepInterval \div 2

Phases == {"Pending", "Running", "Succeeded", "Failed", "Unknown"}

BoolSeqs(n) == UNION { [1..k -> BOOLEAN] : k \in 0..n }

\* status of one item of `kubectl get pods -o json`: phase and the `ready` flags
Pods == [phase : Phases, containerStatuses : BoolSeqs(MaxContainers)]

NoPod == [phase |-> "", containerStatuses |-> <<>>]

\* names `kubectl get components.dapr.io` may list
ComponentNames == {"pubsub", "statestore", "secretstore", "kafka-pubsub"}

\* one side of the jsonpath output ready/total: a number, or text int() rejects
ReplicaFields == [num : {TRUE}, val : 0..MaxReplicas] \cup {[num |-> FALSE, val |-> 0]}

\* stdout of the replica query split at '/': two fields, or another number of them
ReplicaOutputs == UNION { [1..k -> ReplicaFields] : k \in 1..3 }

\* requests.get: a response with a status code (200, another success code, a
\* server error), or a RequestException
HealthResponses == [raised : {FALSE}, status_code : {HealthOk, 204, 503}]
                       \cup {[raised |-> TRUE, status_code |-> 0]}

---------------------------------------------------------------------------
(* run_command and the decisions the callers take on its result *)

\* every caller's test `return_code != 0`
CommandFailed(r) == r # 0

\* a pod counts as ready: phase Running and every container ready (the definition
\* the readiness claims are stated against)
Ready(p) ==
    /\ p.phase = "Running"
    /\ \A k \in 1..Len(p.containerStatuses) : p.containerStatuses[k]

\* lines 85-89: the loop over container_statuses; False at the first one not ready
RECURSIVE ContainersReady(_)
ContainersReady(cs) ==
    IF cs = <<>> THEN TRUE
    ELSE IF ~Head(cs) THEN FALSE
    ELSE ContainersReady(Tail(cs))

\* mutant: the else branch of lines 90-92 is missing
PodKeepsReadyNoElse(p) ==
    IF p.phase = "Running"
        THEN ContainersReady(p.containerStatuses)
        ELSE TRUE

\* lines 79-92, one pod: whether all_ready is left as it is (FALSE: it is set False)
PodKeepsReady(p) ==
    IF p.phase = "Running"
        THEN ContainersReady(p.containerStatuses)
        ELSE FALSE

\* lines 90-92: a pod that is not Running ends the loop over pods
PodBreaks(p) == p.phase # "Running"

\* mutant: line 94 without `len(pods) > 0`
PollSucceedsEmpty(ready, n) == ready

\* line 94
PollSucceeds(ready, n) == ready /\ n > 0

\* line 67
WhileCond(el, to) == el < to

\* mutant: a failed listing command is taken as "not ready yet"
PollActionRetries(r, json) ==
    IF CommandFailed(r) \/ ~json THEN "parse_error"
    ELSE "examine"

\* mutant: a JSONDecodeError ends the wait
PollActionParseAborts(r, json) ==
    IF CommandFailed(r) \/ ~json THEN "return_false"
    ELSE "examine"

\* lines 68-99: what one listing result leads to
PollAction(r, json) ==
    IF CommandFailed(r) THEN "return_false"
    ELSE IF ~json THEN "parse_error"
    ELSE "examine"

---------------------------------------------------------------------------
(* main *)

\* mutant: the loop is left before the FAILED line is printed
RecordPassedOnly(rep, k, ok) ==
    IF ok THEN Append(rep, [step |-> k, name |-> Steps[k], passed |-> ok]) ELSE rep

\* lines 248-253: the line printed for a step
Record(rep, k, ok) == Append(rep, [step |-> k, name |-> Steps[k], passed |-> ok])

\* mutant: the `break` of line 251 is missing
BreaksNever(ok) == FALSE

\* lines 248-251: a step that returned False ends the loop
Breaks(ok) == ~ok

\* mutant: main returns 0 on both branches
ExitCodeZero(passed) == 0

\* mutant: the loop skips a step
NextStepSkips(k) == IF k + 2 <= NumSteps THEN k + 2 ELSE k + 1

\* line 245: the for loop goes on to the following step
NextStep(k) == k + 1

\* lines 256-263
ExitCode(passed) == IF passed THEN 0 ELSE 1

\* mutant: the connection check runs the status command once more
FirstCallStatusAgain(k) ==
    CASE k = 1 -> "minikube_status"
      [] k = 2 -> "minikube_status"
      [] k = 3 -> "apply"
      [] k = 4 -> "wait_loop"
      [] k = 5 -> "get_components"
      [] k = 6 -> "get_placement"
      [] k = 7 -> "get_deployment"
      [] k = 8 -> "service_url"

\* the first blocking call of each step function
FirstCall(k) ==
    CASE k = 1 -> "minikube_status"
      [] k = 2 -> "cluster_info"
      [] k = 3 -> "apply"
      [] k = 4 -> "wait_loop"
      [] k = 5 -> "get_components"
      [] k = 6 -> "get_placement"
      [] k = 7 -> "get_deployment"
      [] k = 8 -> "service_url"

\* the blocking calls that leave the process: commands and HTTP requests
IsCall(p) ==
    p \in {"minikube_status", "cluster_info", "apply", "get_pods", "get_components",
           "get_placement", "get_deployment", "service_url", "health"}

\* control goes to p.  Lines 9-12: run_command hands a command to subprocess.run
\* (requests.get for a health probe); the call is noted in cmds, a call made
\* before in repeated.  Line 248: entering the wait loop is a call of
\* wait_for_pods_ready.
Issue(p, idx) ==
    /\ IF IsCall(p)
           THEN /\ cmds' = cmds \cup {<<p, idx>>}
                /\ repeated' = IF <<p, idx>> \in cmds
                                   THEN repeated \cup {<<p, idx>>} ELSE repeated
           ELSE UNCHANGED <<cmds, repeated>>
    /\ calls' = IF p = "wait_loop" /\ pc # "sleep" THEN calls + 1 ELSE calls

\* lines 12-15: the call in flight returns code c (the return code of a command;
\* the status code of a request, 0 when it raised)
Return(c) == returned' = returned \cup {[cmd |-> <<pc, i>>, code |-> c]}

\* lines 245-263: step_func() has returned ok; main records it and goes on to the
\* next step, or leaves the loop and returns the exit code
MainStep(ok) ==
    LET passed == IF ok THEN all_passed ELSE FALSE IN
    /\ report' = Record(report, step, ok)
    /\ all_passed' = passed
    /\ i' = 1
    /\ IF ~Breaks(ok) /\ step < NumSteps
           THEN /\ step' = NextStep(step)
                /\ invoked' = Append(invoked, NextStep(step))
                /\ pc' = FirstCall(NextStep(step))
                /\ exit_code' = exit_code
                /\ Issue(FirstCall(NextStep(step)), 1)
           ELSE /\ step' = step
                /\ invoked' = invoked
                /\ pc' = "exit"
                /\ exit_code' = <<ExitCode(passed)>>
                /\ UNCHANGED <<cmds, repeated, calls>>

\* the step function goes on to its next blocking call
Continue(next, idx) ==
    /\ pc' = next
    /\ i' = idx
    /\ Issue(next, idx)
    /\ UNCHANGED mainVars

---------------------------------------------------------------------------

Init ==
    /\ pc = "start"
    /\ step = 0
    /\ all_passed = TRUE
    /\ exit_code = <<>>
    /\ report = <<>>
    /\ invoked = <<>>
    /\ i = 1
    /\ rc = 0
    /\ timeout \in Timeouts
    /\ elapsed = 0
    /\ poll = "none"
    /\ n_pods = 0
    /\ j = 0
    /\ pod = NoPod
    /\ all_ready = TRUE
    /\ broke = FALSE
    /\ unready = 0
    /\ parse_errors = FALSE
    /\ wait_result = "none"
    /\ probes = 0
    /\ sleeps = 0
    /\ fixed_ready = TRUE
    /\ cmds = {}
    /\ repeated = {}
    /\ returned = {}
    /\ components = <<>>
    /\ missing = {}
    /\ replicas = <<>>
    /\ calls = 0
    /\ first = <<>>
    /\ cancelled = FALSE

\* lines 244-248: main enters the loop and calls the first step
Start ==
    /\ pc = "start"
    /\ step' = 1
    /\ invoked' = <<1>>
    /\ pc' = FirstCall(1)
    /\ Issue(FirstCall(1), 1)
    /\ UNCHANGED <<all_passed, exit_code, report, i, rc, waitVars, returned,
                   stepObs, callVars>>

\* check_minikube_status, lines 20-25
MinikubeStatusReturn ==
    /\ pc = "minikube_status"
    /\ \E r \in ReturnCodes :
        /\ rc' = r
        /\ Return(r)
        /\ MainStep(~CommandFailed(r))
    /\ UNCHANGED <<waitVars, stepObs, callVars>>

\* check_kubectl_connection, lines 30-35
ClusterInfoReturn ==
    /\ pc = "cluster_info"
    /\ \E r \in ReturnCodes :
        /\ rc' = r
        /\ Return(r)
        /\ MainStep(~CommandFailed(r))
    /\ UNCHANGED <<waitVars, stepObs, callVars>>

\* mutant: a failed apply is skipped and the loop goes on
DeployActionGoesOn(r, idx) ==
    IF idx < Len(Manifests) THEN "next"
    ELSE "return_true"

\* lines 51-60: what the result of the apply of manifest idx leads to
DeployAction(r, idx) ==
    IF CommandFailed(r) THEN "return_false"
    ELSE IF idx < Len(Manifests) THEN "next"
    ELSE "return_true"

\* deploy_to_minikube, lines 51-60: the apply of manifest i returns
ApplyReturn ==
    /\ pc = "apply"
    /\ \E r \in ReturnCodes :
        LET act == DeployAction(r, i) IN
        /\ rc' = r
        /\ Return(r)
        /\ CASE act = "return_false" -> MainStep(FALSE)
             [] act = "next"         -> Continue("apply", i + 1)
             [] act = "return_true"  -> MainStep(TRUE)
    /\ UNCHANGED <<waitVars, stepObs, callVars>>

---------------------------------------------------------------------------
(* wait_for_pods_ready *)

\* a count that stops at MaxCounted
Counted(n) == IF n < MaxCounted THEN n + 1 ELSE n

\* line 67: the while condition, on entry and after every sleep; lines 104-105
WaitLoopCheck ==
    /\ pc = "wait_loop"
    /\ IF WhileCond(elapsed, timeout)
           THEN /\ Continue("get_pods", i)
                /\ wait_result' = wait_result
                /\ probes' = Counted(probes)
           ELSE /\ MainStep(FALSE)
                /\ wait_result' = "timeout"
                /\ probes' = probes
    /\ UNCHANGED <<rc, timeout, elapsed, poll, n_pods, j, pod, all_ready, broke,
                   unready, parse_errors, sleeps, fixed_ready, returned, stepObs,
                   callVars>>

\* time passes while `kubectl get pods -o json` runs: subprocess.run has no timeout
Tick ==
    /\ pc = "get_pods"
    /\ elapsed < timeout + MaxOverrun
    /\ elapsed' = elapsed + TickStep
    /\ UNCHANGED <<pc, i, rc, mainVars, timeout, poll, n_pods, j, pod, all_ready,
                   broke, unready, parse_errors, wait_result, probes, sleeps,
                   fixed_ready, cmds, repeated, returned, stepObs, calls, callVars>>

\* lines 68-77 and 98-99: the listing command returns; json: json.loads accepts
\* stdout, whose 'items' then hold n pods (the items are read one by one by
\* ExaminePod).  Stdout is looked at only after a zero return code, and it is
\* either text json.loads rejects or the pod list object kubectl prints.
GetPodsReturn ==
    /\ pc = "get_pods"
    /\ \E r \in ReturnCodes, json \in BOOLEAN, n \in 0..MaxPods :
        LET act == PollAction(r, json) IN
        /\ rc' = r
        /\ Return(r)
        /\ json => ~CommandFailed(r)
        /\ (n > 0) => json
        /\ n_pods' = n
        /\ poll' = IF CommandFailed(r) THEN "command_failed"
                   ELSE IF json THEN "listed" ELSE "parse_failed"
        /\ parse_errors' = (parse_errors \/ (~CommandFailed(r) /\ ~json))
        /\ fixed_ready' = (fixed_ready /\ ~CommandFailed(r) /\ json /\ n > 0)
        /\ CASE act = "return_false" ->
                    /\ MainStep(FALSE)
                    /\ wait_result' = "command_failed"
             [] act = "parse_error" ->
                    /\ Continue("sleep", i)
                    /\ wait_result' = wait_result
             [] act = "examine" ->
                    /\ Continue("pod_loop", i)
                    /\ wait_result' = wait_result
    /\ j' = 0
    /\ pod' = NoPod
    /\ all_ready' = TRUE
    /\ broke' = FALSE
    /\ unready' = 0
    /\ UNCHANGED <<timeout, elapsed, probes, sleeps, stepObs, callVars>>

\* lines 78-92: one iteration of the loop over pods; p is the next item
ExaminePod ==
    /\ pc = "pod_loop"
    /\ j < n_pods
    /\ ~broke
    /\ \E p \in Pods :
        /\ pod' = p
        /\ all_ready' = IF PodKeepsReady(p) THEN all_ready ELSE FALSE
        /\ broke' = PodBreaks(p)
        /\ unready' = IF Ready(p) THEN unready ELSE unready + 1
        /\ fixed_ready' = (fixed_ready /\ Ready(p))
    /\ j' = j + 1
    /\ UNCHANGED <<pc, i, rc, mainVars, timeout, elapsed, poll, n_pods,
                   parse_errors, wait_result, probes, sleeps, cmds, repeated,
                   returned, stepObs, calls, callVars>>

\* lines 94-96: the loop over pods has ended
EndPodLoop ==
    /\ pc = "pod_loop"
    /\ j = n_pods \/ broke
    /\ IF PollSucceeds(all_ready, n_pods)
           THEN /\ MainStep(TRUE)
                /\ wait_result' = "ready"
                /\ UNCHANGED <<n_pods, j, pod, all_ready, broke, unready>>
           ELSE /\ Continue("sleep", i)
                /\ wait_result' = wait_result
                \* the locals of this iteration are dead: they are as the next
                \* iteration sets them
                /\ n_pods' = 0
                /\ j' = 0
                /\ pod' = NoPod
                /\ all_ready' = TRUE
                /\ broke' = FALSE
                /\ unready' = 0
    /\ UNCHANGED <<rc, timeout, elapsed, poll, parse_errors, probes, sleeps,
                   fixed_ready, returned, stepObs, callVars>>

\* lines 101-102: time.sleep(10) returns
Sleep ==
    /\ pc = "sleep"
    /\ elapsed' = elapsed + SleepInterval
    /\ sleeps' = Counted(sleeps)
    /\ Continue("wait_loop", i)
    /\ UNCHANGED <<rc, timeout, poll, n_pods, j, pod, all_ready, broke, unready,
                   parse_errors, wait_result, probes, fixed_ready, returned,
                   stepObs, callVars>>

---------------------------------------------------------------------------
(* the steps after the wait *)

\* line 170: `component in stdout` is a substring test on the listing's text
Occurs(c, name) == c = name \/ (c = "pubsub" /\ name = "kafka-pubsub")

InStdout(c, listed) == \E name \in listed : Occurs(c, name)

\* line 168, in the order the loop of line 169 takes them
RequiredList == <<"pubsub", "statestore", "secretstore">>

\* lines 169-174: the names printed as not found; the loop returns at the first
RECURSIVE NotFound(_, _)
NotFound(cs, listed) ==
    IF cs = <<>> THEN {}
    ELSE IF ~InStdout(Head(cs), listed) THEN {Head(cs)}
    ELSE NotFound(Tail(cs), listed)

\* validate_dapr_components, lines 159-176.  The frame of wait_for_pods_ready is
\* gone by now: its clock, its last pod and its parse errors are forgotten.
GetComponentsReturn ==
    /\ pc = "get_components"
    /\ \E r \in ReturnCodes, listed \in SUBSET ComponentNames :
        /\ rc' = r
        /\ Return(r)
        /\ CommandFailed(r) => listed = {}
        /\ components' = IF CommandFailed(r) THEN <<>> ELSE <<listed>>
        /\ missing' = IF CommandFailed(r) THEN {} ELSE NotFound(RequiredList, listed)
        /\ MainStep(/\ ~CommandFailed(r)
                    /\ \A c \in RequiredComponents : InStdout(c, listed))
    /\ elapsed' = 0
    /\ pod' = NoPod
    /\ parse_errors' = FALSE
    /\ UNCHANGED <<timeout, poll, n_pods, j, all_ready, broke, unready,
                   wait_result, probes, sleeps, fixed_ready, replicas, callVars>>

\* validate_dapr_placement, lines 182-192; running: "Running" in stdout
GetPlacementReturn ==
    /\ pc = "get_placement"
    /\ \E r \in ReturnCodes, running \in BOOLEAN :
        /\ rc' = r
        /\ Return(r)
        /\ MainStep(~CommandFailed(r) /\ running)
    /\ UNCHANGED <<waitVars, stepObs, callVars>>

\* lines 213-214: split at '/', unpack into two names, int() of each
ParsesReplicas(out) == Len(out) = 2 /\ out[1].num /\ out[2].num

\* mutant: line 216 compares the ready count only
ScalingOkReadyOnly(out) ==
    /\ ParsesReplicas(out)
    /\ out[1].val = ExpectedReplicas

\* lines 212-223
ScalingOk(out) ==
    /\ ParsesReplicas(out)
    /\ out[1].val = ExpectedReplicas
    /\ out[2].val = ExpectedReplicas

\* what a failed command leaves in stdout is not looked at
NoOutput == <<[num |-> FALSE, val |-> 0]>>

\* validate_services_scaled, lines 206-225: the query for service i returns
GetDeploymentReturn ==
    /\ pc = "get_deployment"
    /\ \E r \in ReturnCodes, out \in ReplicaOutputs :
        /\ rc' = r
        /\ Return(r)
        /\ CommandFailed(r) => out = NoOutput
        /\ replicas' = IF CommandFailed(r) THEN replicas ELSE Append(replicas, out)
        /\ IF CommandFailed(r) \/ ~ScalingOk(out) THEN MainStep(FALSE)
           ELSE IF i < Len(ScaledServices) THEN Continue("get_deployment", i + 1)
           ELSE MainStep(TRUE)
    /\ UNCHANGED <<waitVars, components, missing, callVars>>

\* mutant: status codes below 400 count as healthy
HealthyBelow400(resp) == ~resp.raised /\ resp.status_code < 400

\* lines 123 and 140
Healthy(resp) == ~resp.raised /\ resp.status_code = HealthOk

\* mutant: the URL of every service is required
UrlRequiredAlways(idx) == TRUE

\* lines 112-115 against 135-150: only task-service, the first, must have a URL
UrlRequired(idx) == idx = 1

\* test_basic_functionality, lines 112-115 and 135-150: `minikube service
\* <HealthServices[i]> --url` returns
ServiceUrlReturn ==
    /\ pc = "service_url"
    /\ \E r \in ReturnCodes :
        /\ rc' = r
        /\ Return(r)
        /\ IF ~CommandFailed(r) THEN Continue("health", i)
           ELSE IF UrlRequired(i) THEN MainStep(FALSE)
           ELSE IF i < Len(HealthServices) THEN Continue("service_url", i + 1)
           ELSE MainStep(TRUE)
    /\ UNCHANGED <<waitVars, stepObs, callVars>>

\* test_basic_functionality, lines 121-130 and 138-147: requests.get returns
HealthReturn ==
    /\ pc = "health"
    /\ \E resp \in HealthResponses :
        /\ Return(resp.status_code)
        /\ IF ~Healthy(resp) THEN MainStep(FALSE)
           ELSE IF i < Len(HealthServices) THEN Continue("service_url", i + 1)
           ELSE MainStep(TRUE)
    /\ UNCHANGED <<rc, waitVars, stepObs, callVars>>

---------------------------------------------------------------------------

Next ==
    \/ Start
    \/ MinikubeStatusReturn
    \/ ClusterInfoReturn
    \/ ApplyReturn
    \/ WaitLoopCheck
    \/ Tick
    \/ GetPodsReturn
    \/ ExaminePod
    \/ EndPodLoop
    \/ Sleep
    \/ GetComponentsReturn
    \/ GetPlacementReturn
    \/ GetDeploymentReturn
    \/ ServiceUrlReturn
    \/ HealthReturn

Spec == Init /\ [][Next]_vars

\* what the code itself guarantees: its own steps are taken and time.sleep
\* returns.  Nothing makes an external command return.
FairSpec ==
    /\ Spec
    /\ WF_vars(Start)
    /\ WF_vars(WaitLoopCheck)
    /\ WF_vars(ExaminePod)
    /\ WF_vars(EndPodLoop)
    /\ WF_vars(Sleep)
    /\ WF_vars(Tick)

---------------------------------------------------------------------------
(* The pipeline as the state machine NotStarted, Running(i), Passed, Failed(i) *)

Running(k) == <<"Running", k>>
Failed(k)  == <<"Failed", k>>
NotStarted == <<"NotStarted", 0>>
Passed     == <<"Passed", 0>>

PipelineState ==
    IF pc = "start" THEN NotStarted
    ELSE IF exit_code = <<>> THEN Running(step)
    ELSE IF all_passed THEN Passed
    ELSE Failed(step)

Finished == pc = "exit"

\* the result main recorded last
LastPassed == report[Len(report)].passed

SomeStepFailed == \E k \in 1..Len(report) : ~report[k].passed

---------------------------------------------------------------------------
(* Claims *)

\* C1: main calls the steps in their declared order, each at most once, and
\* once a step has returned failure no later step is ever called.
C1_OrderedFailFast ==
    /\ Len(invoked) <= NumSteps
    /\ \A k \in 1..Len(invoked) : invoked[k] = k
    /\ \A k \in 1..Len(report) :
          ~report[k].passed => \A m \in 1..Len(invoked) : invoked[m] <= report[k].step

\* the run [A(pass), B(fail), ...]: the third step was never called
C1_Witness ==
    /\ Finished
    /\ Len(report) = 2
    /\ report[1].passed
    /\ ~report[2].passed
    /\ invoked = <<1, 2>>

\* C2: when the pipeline has finished, the overall verdict is true iff every
\* step of the list was executed and returned success; the exit code is 0
\* exactly when the verdict is true and 1 exactly when some step failed.
C2_VerdictAndExitCode ==
    Finished =>
        /\ all_passed <=> /\ Len(invoked) = NumSteps
                          /\ Len(report) = NumSteps
                          /\ \A k \in 1..NumSteps : report[k].step = k /\ report[k].passed
        /\ exit_code \in {<<0>>, <<1>>}
        /\ exit_code = <<0>> <=> all_passed
        /\ exit_code = <<1>> <=> SomeStepFailed

\* all eight steps passed and main returned 0
C2_Witness ==
    /\ Finished
    /\ all_passed
    /\ Len(report) = NumSteps
    /\ exit_code = <<0>>

\* C3: from NotStarted the pipeline goes to Running(1); from Running(k) only to
\* Running(k+1) (step k succeeded, k not last), Passed (step k succeeded, k
\* last) or Failed(k) (step k failed); nothing leaves Passed or Failed(k).
C3_Transition ==
    LET s == PipelineState
        t == PipelineState'
    IN  s # t =>
          \/ s = NotStarted /\ t = Running(1)
          \/ \E k \in 1..NumSteps :
                /\ s = Running(k)
                /\ Len(report') = k
                /\ report'[k].step = k
                /\ \/ t = Running(k + 1) /\ k < NumSteps /\ report'[k].passed
                   \/ t = Passed /\ k = NumSteps /\ report'[k].passed
                   \/ t = Failed(k) /\ ~report'[k].passed

\* C3: every step of the pipeline is one of these transitions
C3_StateMachine == [][C3_Transition]_vars

\* the pipeline ran through Running(1..5) and stopped in Failed(5)
C3_Witness ==
    /\ PipelineState = Failed(5)
    /\ Len(report) = 5

\* C4: the report holds one PASSED/FAILED entry for each step called so far, in
\* the order of the calls (the step being executed gets its entry when it
\* returns); when the pipeline stops on a failing step k the report holds the
\* entries of steps 1..k, the last one failed, and none for a later step.
C4_ReportTrail ==
    /\ Len(report) = IF pc \in {"start", "exit"} THEN Len(invoked) ELSE Len(invoked) - 1
    /\ \A k \in 1..Len(report) :
          /\ report[k].step = invoked[k]
          /\ report[k].name = Steps[invoked[k]]
          /\ k < Len(report) => report[k].passed
    /\ (Finished /\ ~all_passed) =>
          /\ ~LastPassed
          /\ Len(report) = step
          /\ \A k \in 1..Len(report) : report[k].step <= step

\* the pipeline stopped on its third step: three entries, the last one FAILED
C4_Witness ==
    /\ Finished
    /\ Len(report) = 3
    /\ report[1].passed /\ report[2].passed
    /\ ~report[3].passed
    /\ report[3].name = "Deploy Application"

\* the call of wait_for_pods_ready has returned False
WaitReturnedFalse == Len(report) >= 4 /\ ~report[4].passed

\* the call of wait_for_pods_ready has returned True
WaitReturnedTrue == Len(report) >= 4 /\ report[4].passed

\* the loop over the pods of a listing has ended having examined all of them,
\* there is at least one, and each of them is ready
ReadyListingExamined ==
    /\ pc = "pod_loop"
    /\ n_pods > 0
    /\ j = n_pods
    /\ unready = 0

\* C5: wait_for_pods_ready returns True only on a listing that is non-empty and
\* whose pods are all ready, and it returns True on every such listing its loop
\* obtains (so on the first one); an empty listing never yields True.
C5_ReturnsTrueOnlyThen ==
    /\ WaitReturnedTrue <=> wait_result = "ready"
    /\ wait_result = "ready" =>
          /\ poll = "listed"
          /\ n_pods > 0
          /\ j = n_pods
          /\ unready = 0

C5_ReturnsTrueThen == ReadyListingExamined => wait_result' = "ready" /\ pc' # "sleep"

\* C5: True only on a non-empty all-ready listing, and on every such listing
C5_ReadyPoll == [] C5_ReturnsTrueOnlyThen /\ [][C5_ReturnsTrueThen]_vars

\* two ready pods listed on a later poll, before the deadline
C5_Witness ==
    /\ wait_result = "ready"
    /\ n_pods = 2
    /\ elapsed > 0
    /\ elapsed < timeout

\* C6: a pod examined by the poll counts as ready iff its phase is Running and
\* every container status has ready = true (also when there is none); a pod in
\* another phase never does; one pod that is not ready makes the listing not ready.
C6_ListingReady == all_ready <=> unready = 0

C6_PodExamined ==
    /\ (pc = "pod_loop" /\ j' = j + 1) =>
          /\ all_ready' <=> (all_ready /\ Ready(pod'))
          /\ pod'.phase \in Phases \ {"Running"} => ~all_ready'
          /\ (pod'.phase = "Running" /\ pod'.containerStatuses = <<>>) =>
                 all_ready' = all_ready
    /\ (pc = "pod_loop" /\ unready > 0) => wait_result' = "none"

\* C6: the listing is ready iff no examined pod is not ready, pod by pod
C6_Readiness == [] C6_ListingReady /\ [][C6_PodExamined]_vars

\* the first pod was not ready, the second one is: the listing is not ready
C6_Witness ==
    /\ pc = "pod_loop"
    /\ j = 2
    /\ unready = 1
    /\ Ready(pod)
    /\ ~all_ready

\* C7 as claimed: wait_for_pods_ready returns False only when its deadline has
\* elapsed (a failed listing command is taken as "not ready" and polling goes on).
C7_FalseOnlyAtDeadline == WaitReturnedFalse => elapsed >= timeout

\* C7 as amended: wait_for_pods_ready returns False when its deadline has
\* elapsed or when a listing command fails; a failed listing command makes it
\* return False on that attempt, with no sleep and no further poll.
C7_FalseAtDeadlineOrCommandFailure ==
    /\ WaitReturnedFalse <=> wait_result \in {"timeout", "command_failed"}
    /\ wait_result = "timeout" => elapsed >= timeout
    /\ wait_result = "command_failed" => poll = "command_failed" /\ CommandFailed(rc)
    /\ poll = "command_failed" =>
          /\ wait_result = "command_failed"
          /\ PipelineState = Failed(4)

\* the launch of a later listing command failed before the deadline
C7_Witness ==
    /\ wait_result = "command_failed"
    /\ rc = -1
    /\ elapsed > 0
    /\ elapsed < timeout
    /\ PipelineState = Failed(4)

\* C8: a listing that json.loads rejects is "not ready yet": the call does not
\* return on that attempt, it sleeps one interval and, the deadline not reached,
\* polls again; a ready listing obtained afterwards still makes it return True.
C8_ParseFailureStep ==
    /\ (pc = "get_pods" /\ pc' # "get_pods" /\ poll' = "parse_failed") =>
          /\ pc' = "sleep"
          /\ wait_result' = "none"
          /\ UNCHANGED <<report, exit_code, elapsed>>
    /\ pc = "sleep" => pc' = "wait_loop" /\ elapsed' = elapsed + SleepInterval
    /\ (pc = "wait_loop" /\ elapsed < timeout) => pc' = "get_pods"
    /\ (parse_errors /\ ReadyListingExamined) => wait_result' = "ready"

\* C8: a parse failure never ends the wait; it sleeps and polls again
C8_ParseFailureIsNotReady == [][C8_ParseFailureStep]_vars

\* True was returned by a call that had caught a JSONDecodeError before
C8_Witness ==
    /\ wait_result = "ready"
    /\ parse_errors
    /\ elapsed < timeout

\* C9: against pods that never become ready (every listing is obtained and
\* parsed, none is ready), wait_for_pods_ready(timeout = T) with sleeps of I
\* returns False at an elapsed time t with T <= t < T + I.
C9_TimeoutBoundary ==
    (wait_result = "timeout" /\ ~parse_errors) =>
        /\ timeout <= elapsed
        /\ elapsed < timeout + SleepInterval

\* C10: every call of wait_for_pods_ready eventually returns, also when a
\* listing command is still running at the deadline.  (Checked under FairSpec:
\* time passes and the code takes its own steps; elapsed stands still only
\* once the call is MaxOverrun past its deadline.)
C10_WaitReturns == (step = 4 /\ ~Finished) ~> (wait_result # "none")

---------------------------------------------------------------------------
(* Signals *)

\* a signal is delivered while wait_for_pods_ready polls or sleeps.  SIGINT is
\* raised as KeyboardInterrupt in the blocked call; it is not an Exception, so
\* neither the except of line 13 nor that of line 98 catches it and it leaves
\* wait_for_pods_ready and main.  Any other terminating signal ends the process
\* at once.  Either way control never comes back to the call.
Cancel ==
    /\ pc \in {"wait_loop", "get_pods", "pod_loop", "sleep"}
    /\ ~cancelled
    /\ cancelled' = TRUE
    /\ pc' = "interrupted"
    /\ UNCHANGED <<i, rc, mainVars, waitVars, cmds, repeated, returned, stepObs,
                   calls, first>>

SignalInit == Init /\ timeout = ShortTimeout

SignalNext == Next \/ Cancel

\* the pipeline with a signal that may arrive during the wait
SignalSpec == SignalInit /\ [][SignalNext]_vars

\* C11: when a cancellation signal arrives while wait_for_pods_ready is polling
\* or sleeping, the call returns False (at once, without another probe).
C11_CancelReturnsFalse == cancelled => WaitReturnedFalse

---------------------------------------------------------------------------
(* wait_for_pods_ready called more than once *)

\* mutant: the clock of the previous call is kept
ElapsedAtEntryKept(el) == el

\* line 65: start_time = time.time(); the call's elapsed time starts at zero
ElapsedAtEntry(el) == 0

\* a caller is about to call wait_for_pods_ready(ShortTimeout), as main does once
\* its first three steps have passed
TwiceInit ==
    /\ pc = "wait_loop"
    /\ step = 4
    /\ all_passed = TRUE
    /\ exit_code = <<>>
    /\ report = [k \in 1..3 |-> [step |-> k, name |-> Steps[k], passed |-> TRUE]]
    /\ invoked = <<1, 2, 3, 4>>
    /\ i = 1
    /\ rc = 0
    /\ timeout = ShortTimeout
    /\ elapsed = ElapsedAtEntry(0)
    /\ poll = "none"
    /\ n_pods = 0
    /\ j = 0
    /\ pod = NoPod
    /\ all_ready = TRUE
    /\ broke = FALSE
    /\ unready = 0
    /\ parse_errors = FALSE
    /\ wait_result = "none"
    /\ probes = 0
    /\ sleeps = 0
    /\ fixed_ready = TRUE
    /\ cmds = {<<"minikube_status", 1>>, <<"cluster_info", 1>>}
                  \cup {<<"apply", k>> : k \in 1..Len(Manifests)}
    /\ repeated = {}
    /\ returned = {[cmd |-> c, code |-> 0] : c \in cmds}
    /\ components = <<>>
    /\ missing = {}
    /\ replicas = <<>>
    /\ calls = 1
    /\ first = <<>>
    /\ cancelled = FALSE

\* lines 62-66: the call has returned and the caller calls the function again,
\* with fresh locals and a fresh start_time
CallAgain ==
    /\ wait_result # "none"
    /\ calls < MaxCalls
    /\ calls' = calls + 1
    /\ first' = IF first = <<>> THEN <<wait_result, probes, sleeps>> ELSE first
    /\ pc' = "wait_loop"
    /\ step' = 4
    /\ exit_code' = <<>>
    /\ i' = 1
    /\ elapsed' = ElapsedAtEntry(elapsed)
    /\ poll' = "none"
    /\ n_pods' = 0
    /\ j' = 0
    /\ pod' = NoPod
    /\ all_ready' = TRUE
    /\ broke' = FALSE
    /\ unready' = 0
    /\ parse_errors' = FALSE
    /\ wait_result' = "none"
    /\ probes' = 0
    /\ sleeps' = 0
    /\ UNCHANGED <<rc, timeout, all_passed, report, invoked, fixed_ready, cmds,
                   repeated, returned, stepObs, cancelled>>

TwiceNext ==
    \/ WaitLoopCheck
    \/ Tick
    \/ GetPodsReturn
    \/ ExaminePod
    \/ EndPodLoop
    \/ Sleep
    \/ CallAgain

\* wait_for_pods_ready called up to MaxCalls times in succession
TwiceSpec == TwiceInit /\ [][TwiceNext]_vars

\* the call has returned
WaitReturned == wait_result # "none"

\* C12: against pods that are ready at every listing (fixed_ready), a call
\* returns True after exactly one probe and no sleep, and a further call gives
\* the same result with the same number of probes as the first.
C12_ReadyAtFirstProbeEachCall ==
    (WaitReturned /\ fixed_ready) =>
        /\ wait_result = "ready"
        /\ probes = 1
        /\ sleeps = 0
        /\ calls >= 2 => first = <<wait_result, probes, sleeps>>

\* the second call has returned True against pods that were ready throughout
C12_Witness ==
    /\ calls = 2
    /\ fixed_ready
    /\ wait_result = "ready"
    /\ probes = 1
    /\ first = <<"ready", 1, 0>>

---------------------------------------------------------------------------
(* Commands and the steps that issue them *)

\* the step whose function makes call p
StepOfCall(p) ==
    CASE p = "minikube_status" -> 1
      [] p = "cluster_info"    -> 2
      [] p = "apply"           -> 3
      [] p = "get_pods"        -> 4
      [] p = "get_components"  -> 5
      [] p = "get_placement"   -> 6
      [] p = "get_deployment"  -> 7
      [] p = "service_url"     -> 8
      [] p = "health"          -> 8

\* the return code run_command makes up when the command could not be launched
LaunchFailure == 0 - 1

\* a command of step k came back with the launch-failure code
LaunchFailedIn(k) ==
    \E e \in returned :
        /\ e.cmd[1] # "health"
        /\ StepOfCall(e.cmd[1]) = k
        /\ e.code = LaunchFailure

\* C13: a step in which some command yielded the launch-failure code -1 returns
\* failure.
C13_LaunchFailureFailsStep ==
    \A k \in 1..Len(report) : LaunchFailedIn(k) => ~report[k].passed

---------------------------------------------------------------------------
(* The functionality step *)

\* the functionality step has returned
FunctionalityRecorded == Len(report) = NumSteps

FunctionalityPassed == FunctionalityRecorded /\ report[NumSteps].passed

\* the URL command of service k of HealthServices came back with a failure
UrlFailed(k) ==
    \E e \in returned : e.cmd = <<"service_url", k>> /\ CommandFailed(e.code)

\* the health request to service k did not come back with 200
HealthFailed(k) ==
    \E e \in returned : e.cmd = <<"health", k>> /\ e.code # HealthOk

NoHealthFailed == \A k \in 1..Len(HealthServices) : ~HealthFailed(k)

\* C14 as stated: for every service, task-service included, a URL that cannot
\* be resolved does not by itself fail the functionality step: the step fails
\* only if some health request failed.
C14_UrlFailureRecoverable ==
    (FunctionalityRecorded /\ NoHealthFailed) => report[NumSteps].passed

\* C14 amended: the URL of task-service is required, a failure to resolve it
\* fails the step at once, before any request or further URL command; for the
\* four other services a failed URL command does not by itself fail the step.
C14_UrlFailureRecoverableButFirst ==
    /\ FunctionalityRecorded =>
           (report[NumSteps].passed <=> (~UrlFailed(1) /\ NoHealthFailed))
    /\ UrlFailed(1) =>
           /\ Finished
           /\ ~report[NumSteps].passed
           /\ \A c \in cmds : StepOfCall(c[1]) = NumSteps => c = <<"service_url", 1>>
    /\ \A k \in 2..Len(HealthServices) :
           UrlFailed(k) =>
               \/ FunctionalityRecorded
               \/ \E c \in cmds : c[1] \in {"service_url", "health"} /\ c[2] > k

\* the step passed although the URL of every service but task-service failed
C14_Witness ==
    /\ FunctionalityPassed
    /\ \A k \in 2..Len(HealthServices) : UrlFailed(k)

---------------------------------------------------------------------------
(* The scaling step *)

\* replica output that is not of the form <number>/<number>
Malformed(out) == Len(out) # 2 \/ \E k \in 1..Len(out) : ~out[k].num

\* readyReplicas = totalReplicas = expectedReplicas
ScalingSatisfied(out) ==
    /\ ~Malformed(out)
    /\ out[1].val = out[2].val
    /\ out[2].val = ExpectedReplicas

\* the replica query of every declared deployment succeeded
AllQueriesSucceeded ==
    \A k \in 1..Len(ScaledServices) :
        [cmd |-> <<"get_deployment", k>>, code |-> 0] \in returned

ScalingRecorded == Len(report) >= 7

\* C15: the scaling step passes iff the command of every declared deployment
\* succeeded and its output has ready = total = expected; malformed output
\* never counts as satisfied; the loop goes past a deployment only if its
\* scaling is satisfied.
C15_ScalingStep ==
    /\ ScalingRecorded =>
           (report[7].passed <=>
               /\ AllQueriesSucceeded
               /\ Len(replicas) = Len(ScaledServices)
               /\ \A k \in 1..Len(replicas) : ScalingSatisfied(replicas[k]))
    /\ \A k \in 1..Len(replicas) :
           /\ k < Len(replicas) => ScalingSatisfied(replicas[k])
           /\ Malformed(replicas[k]) => (ScalingRecorded /\ ~report[7].passed)
           /\ ~ScalingSatisfied(replicas[k]) => (ScalingRecorded /\ ~report[7].passed)

\* the step failed at the last deployment, whose ready count is the expected
\* one while its total is not
C15_Witness ==
    /\ ScalingRecorded
    /\ ~report[7].passed
    /\ Len(replicas) = Len(ScaledServices)
    /\ ~Malformed(replicas[Len(replicas)])
    /\ replicas[Len(replicas)][1].val = ExpectedReplicas
    /\ replicas[Len(replicas)][2].val # ExpectedReplicas

---------------------------------------------------------------------------
(* The components step *)

\* the component listing was obtained and the step has returned
ComponentsChecked == Len(report) >= 5 /\ components # <<>>

\* C16: the check of the listed (present) component names against the required
\* ones succeeds iff every required name is among the present ones, and on
\* failure reports as missing exactly the required names that are not present.
C16_ComponentsSatisfied ==
    ComponentsChecked =>
        LET present == components[1] IN
        /\ report[5].passed <=> RequiredComponents \subseteq present
        /\ ~report[5].passed => missing = RequiredComponents \ present

---------------------------------------------------------------------------
(* Health requests *)

\* the URL command of service k succeeded
UrlObtained(k) == [cmd |-> <<"service_url", k>>, code |-> 0] \in returned

\* the health request to service k came back with exactly 200
HealthReturnedOk(k) == [cmd |-> <<"health", k>>, code |-> HealthOk] \in returned

\* C17: the functionality step passes only if every service whose URL was
\* obtained answered its health request with exactly 200; any other status code
\* or a request error fails the step, and no later service is probed.
C17_HealthExactly200 ==
    /\ FunctionalityPassed =>
           \A k \in 1..Len(HealthServices) : UrlObtained(k) => HealthReturnedOk(k)
    /\ \A k \in 1..Len(HealthServices) :
           HealthFailed(k) =>
               /\ Finished
               /\ ~report[NumSteps].passed
               /\ \A c \in cmds : StepOfCall(c[1]) = NumSteps => c[2] <= k

\* the third service answered 204 after the second had no URL: the step failed
\* and the last two services were not probed
C17_Witness ==
    /\ UrlFailed(2)
    /\ [cmd |-> <<"health", 3>>, code |-> 204] \in returned
    /\ Finished

---------------------------------------------------------------------------
(* Retries *)

PodListing == <<"get_pods", 1>>

\* the call came back as a failure: a non-zero return code, or for a health
\* request anything but 200
FailedCall(e) ==
    IF e.cmd[1] = "health" THEN e.code # HealthOk ELSE CommandFailed(e.code)

\* this step hands call c to run_command (or requests.get)
IssuedNow(c) == pc' = c[1] /\ i' = c[2] /\ (pc # pc' \/ i # i')

\* only the pod listing is ever issued more than once
C18_OnlyListingRepeated == repeated \subseteq {PodListing}

\* a call that came back as a failure is not issued again
C18_FailedNotReissued == \A e \in returned : FailedCall(e) => ~IssuedNow(e.cmd)

\* C18: no retries outside the readiness poll: every external command but the
\* pod listing is invoked at most once, and a failed command is never invoked
\* again.
C18_NoRetries == [] C18_OnlyListingRepeated /\ [][C18_FailedNotReissued]_vars

\* the pod listing was issued more than once and the pipeline went on to pass
C18_Witness ==
    /\ PodListing \in repeated
    /\ Finished
    /\ all_passed
    /\ Cardinality(cmds) > NumSteps

---------------------------------------------------------------------------
(* The deploy step *)

ManifestIndices == 1..Len(Manifests)

\* the manifests whose apply command has succeeded
Applied ==
    {k \in ManifestIndices : [cmd |-> <<"apply", k>>, code |-> 0] \in returned}

\* the apply of manifest k came back with a failure
ApplyFailed(k) ==
    \E e \in returned : e.cmd = <<"apply", k>> /\ CommandFailed(e.code)

DeployRecorded == Len(report) >= 3

\* manifest k is applied only once all manifests before it are applied; after
\* a failed apply the step has failed and nothing further is run, neither a
\* later apply nor anything that would undo the earlier ones; the step passes
\* iff all six applies succeeded
C19_AppliedPrefix ==
    /\ \A k \in ManifestIndices :
           /\ <<"apply", k>> \in cmds => \A l \in 1..(k - 1) : l \in Applied
           /\ ApplyFailed(k) =>
                  /\ Finished
                  /\ DeployRecorded /\ ~report[3].passed
                  /\ Applied = 1..(k - 1)
                  /\ \A c \in cmds :
                         /\ StepOfCall(c[1]) <= 3
                         /\ c[1] = "apply" => c[2] <= k
    /\ DeployRecorded => (report[3].passed <=> Applied = ManifestIndices)

\* the applies are issued in list order, each after the success of the one
\* before it, and a manifest once applied stays applied
C19_AppliedInOrder ==
    /\ \A k \in ManifestIndices :
           IssuedNow(<<"apply", k>>) =>
               \/ k = 1 /\ pc = "cluster_info"
               \/ k > 1 /\ pc = "apply" /\ i = k - 1 /\ rc' = 0
    /\ Applied \subseteq Applied'

\* C19: the deploy step applies the six manifests in list order, stops at the
\* first failed apply leaving the earlier ones applied, and succeeds iff all
\* six applies succeeded.
C19_DeployStep == [] C19_AppliedPrefix /\ [][C19_AppliedInOrder]_vars

\* the fourth apply failed: three manifests are applied, the last two never run
C19_Witness ==
    /\ ApplyFailed(4)
    /\ Applied = {1, 2, 3}
    /\ <<"apply", 5>> \notin cmds
    /\ Finished

============================================================================
